---- MODULE Spec2Model ----
(***************************************************************************)
(* A state-machine model of the Gibbs outlier sampler of                   *)
(* timing_analysis/outlier_utils.py (class OutlierGibbs): construction,    *)
(* the sweep loop of sample(), the checkpoint flush, and resume.           *)
(*                                                                         *)
(* Reals are modelled on small integer grids: theta and the outlier        *)
(* probabilities are numerators over ThetaDen, log-likelihoods are         *)
(* extended integers (finite, -inf, +inf, nan).  numpy's pseudo random     *)
(* generator is a deterministic generator advanced by every draw; its seed *)
(* is chosen when a process starts.                                        *)
(***************************************************************************)
EXTENDS Integers, Sequences, FiniteSets, TLC

\* ------------------------------------------------------------------ sizes
\* number of observations (length of pta.get_residuals()[0])
NObs == 2
\* number of basis columns (pta.get_basis(xs)[0].shape[1])
NBasis == 2
\* largest value of a hyperparameter coordinate inside its prior's support
XMax == 4
\* denominator of the grid on which theta, m and the pout values live
ThetaDen == 4
\* how many times the process may be killed and started again
MaxHalts == 1
\* how many times sample() may be called on one object
MaxCalls == 1
\* the alpha handed to __init__ (the outlier width when vary_alpha is off)
AlphaArg == 3
\* the sweep of the kill between the first two checkpoints
HaltSweep == 150

\* ------------------------------------------------------- program constants
\* "if ii % 100 == 0 and ii > 0" in sample()
CheckpointEvery == 100
\* "for ii in range(20)" in update_white_params
WhiteIters == 20
\* "for ii in range(10)" in update_hyper_params
HyperIters == 10
\* "np.arange(1, 31)" in update_df
MaxDf == 30
\* the default "tdf=4" of __init__
TdfArg == 4

\* None; an optional number is <<>> or <<v>>
NoneVal == <<>>

Obs == 1..NObs
Basis == 1..NBasis

\* pta.params: the names decide the index sets of the two Metropolis updates
ParamNames == <<"log10_A", "gamma", "efac">>
NParams == Len(ParamNames)

\* ------------------------------------------------------ integer helpers
\* F(1) + ... + F(n)
SumTo(n, F(_)) ==
    LET sum[k \in 0..n] == IF k = 0 THEN 0 ELSE F(k) + sum[k - 1]
    IN  sum[n]

\* np.sum(s)
SumSeq(s) == SumTo(Len(s), LAMBDA k : s[k])

Abs(x) == IF x < 0 THEN -x ELSE x

RECURSIVE ILog2(_)
\* floor(log2(n)) for n >= 1
ILog2(n) == IF n <= 1 THEN 0 ELSE 1 + ILog2(n \div 2)

RECURSIVE Pow(_, _)
Pow(a, k) == IF k = 0 THEN 1 ELSE a * Pow(a, k - 1)

\* ------------------------------------------- extended reals (IEEE results)
Fin(v) == <<"fin", v>>
NegInf == <<"-inf", 0>>
PosInf == <<"inf", 0>>
NaN == <<"nan", 0>>
IsFin(a) == a[1] = "fin"

\* a + b
ExtAdd(a, b) ==
    IF a = NaN \/ b = NaN THEN NaN
    ELSE IF IsFin(a) /\ IsFin(b) THEN Fin(a[2] + b[2])
    ELSE IF IsFin(a) THEN b
    ELSE IF IsFin(b) THEN a
    ELSE IF a = b THEN a
    ELSE NaN

ExtNeg(a) ==
    IF a = NaN THEN NaN
    ELSE IF a = NegInf THEN PosInf
    ELSE IF a = PosInf THEN NegInf
    ELSE Fin(-a[2])

\* a - b
ExtSub(a, b) == ExtAdd(a, ExtNeg(b))

\* a > b; every comparison with nan is False
ExtGt(a, b) ==
    IF a = NaN \/ b = NaN THEN FALSE
    ELSE IF a = b THEN FALSE
    ELSE IF a = PosInf \/ b = NegInf THEN TRUE
    ELSE IF a = NegInf \/ b = PosInf THEN FALSE
    ELSE a[2] > b[2]

\* ------------------------------------------------ numpy's random generator
\* the generator's state after one more draw
RngNext(r) == (r * 75 + 74) % 65537

\* the value in 0..k-1 a draw reads off the generator's state
RngVal(r, k) == (r \div 16) % k

RECURSIVE RngAt(_, _)
\* the generator's state after n more draws
RngAt(r, n) == IF n = 0 THEN r ELSE RngAt(RngNext(r), n - 1)

\* ------------------------------------------ the pta (external collaborator)
\* pta.get_residuals()[0]: the last observation lies far off
Residual(i) == IF i = NObs THEN 5 ELSE 1

\* pta.get_basis(params)[0], an NObs x NBasis matrix
Tmat(i, j) == IF j <= i THEN 1 ELSE 0

\* pta.get_ndiag(params)[0]: the white-noise variances, set by efac
ndiag(xs, i) == xs[3] * xs[3] + 1
get_ndiag(xs) == [i \in Obs |-> ndiag(xs, i)]

\* pta.get_phiinv(params)[0]: the diagonal prior precision, set by log10_A, gamma
phiinv(xs, j) == Abs(XMax - xs[1]) + j * Abs(xs[2]) + 1
get_phiinv(xs) == [j \in Basis |-> phiinv(xs, j)]

\* the logdet the pta returns with logdet=True
logdet_phi(xs) == 0 - SumTo(NBasis, LAMBDA j : ILog2(phiinv(xs, j)))

\* p.get_logpdf(x) summed over the parameters: uniform priors on 0..XMax
get_lnprior(xs) ==
    IF \A k \in 1..NParams : xs[k] \in 0..XMax THEN Fin(0) ELSE NegInf

\* np.dot(Tmat, b)
meanAt(b, i) == SumTo(NBasis, LAMBDA j : Tmat(i, j) * b[j])
theta_mean(b) == [i \in Obs |-> meanAt(b, i)]

\* What scipy.linalg makes of Sigma = TNT + diag(phiinv).  Sigma degrades as
\* the amplitude log10_A goes to the low end of its range:
\*   "pd"       cho_factor and svd succeed
\*   "notpd"    cho_factor raises LinAlgError, svd succeeds
\*   "svdfail"  cho_factor and svd raise LinAlgError, qr and solve succeed
\*   "singular" cho_factor, svd and solve(R, Q.T) raise LinAlgError
SigmaCond(xs) ==
    IF xs[1] <= 0 THEN "singular"
    ELSE IF xs[1] = 1 THEN "svdfail"
    ELSE IF xs[1] = 2 THEN "notpd"
    ELSE "pd"

\* scipy.stats.norm.pdf(x, loc, scale=sqrt(var)) on the integer grid; it
\* underflows to 0 far from loc
NormPdf(x, loc, var) ==
    LET d2 == (x - loc) * (x - loc)
    IN  IF d2 >= 6 * var THEN 0
        ELSE (6 * var - d2 + var * var - 1) \div (var * var)

\* ------------------------------------------------------- OutlierGibbs state
VARIABLES
    \* constructor arguments kept on the object
    lmodel, mp, theta_prior, vary_df, vary_alpha, pspin,
    \* the constructor argument tdf
    tdfarg,
    \* self._b, self._z, self._theta, self._alpha, self.tdf, self._pout
    b, z, theta, alpha, tdf, pout,
    \* the cache self.TNT, self.d
    TNT, d,
    \* the arrays sample() allocates, and self.iter
    chain, bchain, thetachain, zchain, alphachain, poutchain, dfchain, iter,
    \* locals of sample(): loop index, current vector, niter
    ii, xnew, niter,
    \* where the program is, and the exception that ended sample(), if any
    pc, err,
    \* the next file the flush writes (1..7)
    fidx,
    \* the seven files of outdir; the empty sequence is a file that is not there
    files,
    \* state of numpy's random generator
    rng,
    \* bookkeeping of the environment: kills so far, sample() calls on this object
    halts, calls,
    \* history: the files as they were when the last resume read them, its
    \* minLength, whether the current sample() call was a resume, and the sweep
    \* the previous process was killed in (-1: it was not killed while sampling)
    resumed, files0, k0, haltedAt,
    \* history: for each of the seven arrays, in the order of FileNames, the
    \* number of rows that hold a recorded or a loaded row
    rows,
    \* the likelihood object handed to poutlier (<<>>: none), what the last
    \* poutlier call returned (<<>>: no call yet), and history: the object as
    \* it was before that call and the sample of that call
    likob, pret, likob0, pcall,
    \* what the last call of a Metropolis update made on its own did with
    \* the arrays it handled (<<>>: no such call yet)
    mcall,
    \* epochalyptica(): the first fit, the fit without each epoch, the
    \* threshold, the epochs the loop has done, the list of epochs to drop,
    \* the rows of epochdrop.txt, the epochs with the cut flag 'epochdrop', and
    \* the position in the function
    chi2_init, ndof_init, fits, ftest_threshold, done, epochs_to_drop, fout, cuts, epc

cfgvars == <<lmodel, mp, theta_prior, vary_df, vary_alpha, pspin, tdfarg>>
objvars == <<b, z, theta, alpha, tdf, pout, TNT, d>>
chainvars == <<chain, bchain, thetachain, zchain, alphachain, poutchain, dfchain, iter>>
locvars == <<ii, xnew, niter>>
histvars == <<resumed, files0, k0, haltedAt>>
rowvars == <<rows>>
likvars == <<likob, pret, likob0, pcall>>
gibbsvars == <<cfgvars, objvars, chainvars, locvars, pc, err, fidx, files, rng,
               halts, calls, histvars, rowvars>>
bufvars == <<mcall>>
epochvars == <<chi2_init, ndof_init, fits, ftest_threshold, done, epochs_to_drop, fout,
               cuts, epc>>
vars == <<gibbsvars, likvars, bufvars, epochvars>>

\* the file names, in the order sample() reads and writes them
FileNames == <<"chain", "bchain", "thetachain", "zchain", "alphachain",
               "poutchain", "dfchain">>

\* self.* as one record, threaded through the updates of a sweep, with the
\* locals of the loop body: x is xnew, row is self.chain[ii]
Self == [b |-> b, z |-> z, theta |-> theta, alpha |-> alpha, tdf |-> tdf,
         pout |-> pout, TNT |-> TNT, d |-> d, rng |-> rng,
         x |-> xnew, row |-> xnew, err |-> "", ret |-> NoneVal]

\* alpha**z * ndiag
NvecAt(s, xs, i) == Pow(s.alpha[i], s.z[i]) * ndiag(xs, i)
NvecOf(s, xs) == [i \in Obs |-> NvecAt(s, xs, i)]

\* np.dot(T.T, T / Nvec[:,None]), scaled by 4
TNTOf(Nvec) ==
    [j \in Basis |-> [k \in Basis |->
        SumTo(NObs, LAMBDA i : Tmat(i, j) * Tmat(i, k) * (4 \div Nvec[i]))]]

\* np.dot(T.T, residuals/Nvec), scaled by 4
dOf(Nvec) ==
    [j \in Basis |-> SumTo(NObs, LAMBDA i : Tmat(i, j) * ((4 * Residual(i)) \div Nvec[i]))]

\* "if self.TNT is None and self.d is None: self.TNT = ...; self.d = ..."
FillCache(s, xs) ==
    IF s.TNT = NoneVal /\ s.d = NoneVal
    THEN [s EXCEPT !.TNT = TNTOf(NvecOf(s, xs)), !.d = dOf(NvecOf(s, xs))]
    ELSE s

\* get_lnlikelihood_white(xs)
get_lnlikelihood_white(s, xs) ==
    LET logdet_N == SumTo(NObs, LAMBDA i : ILog2(NvecAt(s, xs, i)))
        rNr == SumTo(NObs, LAMBDA i :
                  ((Residual(i) - meanAt(s.b, i)) * (Residual(i) - meanAt(s.b, i)))
                      \div NvecAt(s, xs, i))
    IN  Fin(0 - (logdet_N + rNr))

\* a Cholesky failure that is let through to the caller
CholeskyFailureRaises(s1) == [s1 EXCEPT !.err = "LinAlgError"]

\* the except branch of get_lnlikelihood: "return -np.inf"
CholeskyFailureValue(s1) == [s1 EXCEPT !.ret = NegInf]

\* Sigma = self.TNT + np.diag(phiinv), its diagonal
SigmaAt(s, xs, j) == s.TNT[j][j] + phiinv(xs, j)

\* get_lnlikelihood(xs) below the cache lines, s1 being self with the cache full
LnLikeCached(s1, xs) ==
    IF SigmaCond(xs) # "pd"
    THEN CholeskyFailureValue(s1)
    ELSE [s1 EXCEPT !.ret =
             Fin(0 - (SumTo(NObs, LAMBDA i : ILog2(NvecAt(s1, xs, i)))
                      + SumTo(NObs, LAMBDA i :
                            (Residual(i) * Residual(i)) \div NvecAt(s1, xs, i)))
                 + (SumTo(NBasis, LAMBDA j :
                        (s1.d[j] * s1.d[j]) \div SigmaAt(s1, xs, j))
                    - SumTo(NBasis, LAMBDA j : ILog2(SigmaAt(s1, xs, j)))
                    - logdet_phi(xs)))]

\* get_lnlikelihood(xs): the value in .ret; it fills the cache when empty
get_lnlikelihood(s, xs) == LnLikeCached(FillCache(s, xs), xs)

\* ------------------------------------------------- the Metropolis updates
\* get_hyper_param_indices(): names holding ecorr, log10_A or gamma
get_hyper_param_indices ==
    SelectSeq([k \in 1..NParams |-> k],
              LAMBDA k : ParamNames[k] \in {"ecorr", "log10_A", "gamma"})

\* get_white_noise_indices(): names holding efac or equad
get_white_noise_indices ==
    SelectSeq([k \in 1..NParams |-> k],
              LAMBDA k : ParamNames[k] \in {"efac", "equad"})

\* np.random.choice(sizes, p=probs) * sigmas on the integer grid: the five
\* step sizes, picked with probabilities 0.1, 0.15, 0.5, 0.15, 0.1
JumpStep(v) ==
    IF v < 2 THEN 0 ELSE IF v < 5 THEN 0 ELSE IF v < 15 THEN 1
    ELSE IF v < 18 THEN 1 ELSE 2

\* one proposal: three draws (scale, coordinate, randn) after state r0; q is
\* a copy of x with one coordinate of ind moved
Proposal(r0, x, ind) ==
    [q |-> [x EXCEPT ![ind[RngVal(RngAt(r0, 2), Len(ind)) + 1]] =
                @ + (RngVal(RngAt(r0, 3), 3) - 1) * JumpStep(RngVal(RngAt(r0, 1), 20))],
     rng |-> RngAt(r0, 3)]

\* np.log(np.random.rand()): rand() lies in [0, 1)
LogRand(r) == IF RngVal(r, 4) = 0 THEN NegInf ELSE Fin(0 - RngVal(r, 4))

\* the test with >= in place of >
AcceptsOrEqual(lnlike1, lnprior1, lnlike0, lnprior0, r) ==
    \/ ExtGt(ExtSub(ExtAdd(lnlike1, lnprior1), ExtAdd(lnlike0, lnprior0)), LogRand(r))
    \/ ExtSub(ExtAdd(lnlike1, lnprior1), ExtAdd(lnlike0, lnprior0)) = LogRand(r)

\* "if diff > np.log(np.random.rand())"
Accepts(lnlike1, lnprior1, lnlike0, lnprior0, r) ==
    ExtGt(ExtSub(ExtAdd(lnlike1, lnprior1), ExtAdd(lnlike0, lnprior0)), LogRand(r))

\* The Metropolis step of both updates.  st holds self (s), xnew (x), lnlike0
\* and lnprior0; q is the proposal and s1 is self after the likelihood call
\* at q, the value in .ret
Decide(st, q, s1) ==
    IF s1.err # "" THEN [st EXCEPT !.s = s1]
    ELSE IF Accepts(s1.ret, get_lnprior(q), st.lnlike0, st.lnprior0, RngNext(s1.rng))
    THEN [s |-> [s1 EXCEPT !.rng = RngNext(@)], x |-> q,
          lnlike0 |-> s1.ret, lnprior0 |-> get_lnprior(q)]
    ELSE [st EXCEPT !.s = [s1 EXCEPT !.rng = RngNext(@)]]

\* "return xnew"
Return(st) == [st.s EXCEPT !.ret = st.x]

HyperTry(st, pr) ==
    Decide(st, pr.q, get_lnlikelihood([st.s EXCEPT !.rng = pr.rng], pr.q))

\* one pass of the loop of update_hyper_params
HyperIter(st) == HyperTry(st, Proposal(st.s.rng, st.x, get_hyper_param_indices))

RECURSIVE HyperLoop(_, _)
\* the n remaining passes of the loop of update_hyper_params
HyperLoop(n, st) ==
    IF n = 0 \/ st.s.err # "" THEN st ELSE HyperLoop(n - 1, HyperIter(st))

\* "lnlike0, lnprior0 = self.get_lnlikelihood(xs), self.get_lnprior(xs)"
HyperStart(s0, xs) ==
    [s |-> s0, x |-> xs, lnlike0 |-> s0.ret, lnprior0 |-> get_lnprior(xs)]

\* update_hyper_params(xs): the new vector in .ret
update_hyper_params(s, xs) ==
    Return(HyperLoop(HyperIters, HyperStart(get_lnlikelihood(s, xs), xs)))

WhiteTry(st, pr) ==
    Decide(st, pr.q, [st.s EXCEPT !.rng = pr.rng,
                                  !.ret = get_lnlikelihood_white(st.s, pr.q)])

\* one pass of the loop of update_white_params
WhiteIter(st) == WhiteTry(st, Proposal(st.s.rng, st.x, get_white_noise_indices))

RECURSIVE WhiteLoop(_, _)
\* the n remaining passes of the loop of update_white_params
WhiteLoop(n, st) == IF n = 0 THEN st ELSE WhiteLoop(n - 1, WhiteIter(st))

\* update_white_params(xs): the new vector in .ret
update_white_params(s, xs) ==
    Return(WhiteLoop(WhiteIters,
                     [s |-> s, x |-> xs,
                      lnlike0 |-> get_lnlikelihood_white(s, xs),
                      lnprior0 |-> get_lnprior(xs)]))

\* --------------------------------------------------- the conditional draws
\* A positive rational n/m is <<n, m>>
RatInv(q) == <<q[2], q[1]>>

\* np.sqrt of a positive rational, rounded up to the grid
SqrtUp(q) ==
    CHOOSE k \in 0..q[1] :
        k * k * q[2] >= q[1] /\ (k = 0 \/ (k - 1) * (k - 1) * q[2] < q[1])

\* "u, s, _ = sl.svd(A)" of a diagonal A with positive entries: u the identity
\* up to the order of the columns, s the entries
SvdOf(A) == A

\* the diagonal of Sigma as rationals
SigmaDiag(s1, xs) == [j \in Basis |-> <<SigmaAt(s1, xs, j), 1>>]

\* "mn = np.dot(u, np.dot(u.T, self.d)/s)", "Li = u * np.sqrt(1/s)": the mean
\* and the diagonal of Li Li^T
SvdFactors(s1, sv) ==
    [mn |-> [j \in Basis |-> (s1.d[j] * sv[j][2]) \div sv[j][1]],
     LiSq |-> [j \in Basis |-> RatInv(sv[j])]]

\* "mn = np.dot(Sigi, self.d)", "u, s, _ = sl.svd(Sigi)", "Li = u * np.sqrt(1/s)"
QrFactors(s1, Sigi, sv) ==
    [mn |-> [j \in Basis |-> (Sigi[j][1] * s1.d[j]) \div Sigi[j][2]],
     LiSq |-> [j \in Basis |-> RatInv(sv[j])]]

\* "Q, R = sl.qr(Sigma)", "Sigi = sl.solve(R, Q.T)": the inverse of Sigma
QrInverse(A) == [j \in Basis |-> RatInv(A[j])]

\* the try branch of update_b
SvdPath(s1, xs) == SvdFactors(s1, SvdOf(SigmaDiag(s1, xs)))

\* the except branch of update_b
QrPath(s1, xs) ==
    QrFactors(s1, QrInverse(SigmaDiag(s1, xs)), SvdOf(QrInverse(SigmaDiag(s1, xs))))

\* the draw of update_b, "b = mn + np.dot(Li, np.random.randn(Li.shape[0]))",
\* s1 being self with the cache full and f the mean and Li Li^T
DrawB(s1, f) ==
    [s1 EXCEPT !.ret = [j \in Basis |-> f.mn[j] + (RngVal(RngAt(s1.rng, j), 3) - 1)
                                                     * SqrtUp(f.LiSq[j])],
               !.rng = RngAt(s1.rng, NBasis)]

\* the mean and Li Li^T of the path update_b takes
FactorsOf(s1, xs) ==
    IF SigmaCond(xs) \in {"pd", "notpd"} THEN SvdPath(s1, xs) ELSE QrPath(s1, xs)

\* the factorisations of update_b: svd of Sigma; on LinAlgError qr and solve,
\* whose LinAlgError nothing catches
Factorize(s1, xs) ==
    IF SigmaCond(xs) = "singular" THEN [s1 EXCEPT !.err = "LinAlgError"]
    ELSE DrawB(s1, FactorsOf(s1, xs))

\* update_b(xs): the new b in .ret
update_b(s, xs) == Factorize(FillCache(s, xs), xs)

\* the shape parameters of update_theta's beta draw, times ThetaDen
BetaA(s) ==
    ThetaDen * SumSeq(s.z) + (IF theta_prior = "beta" THEN NObs * mp ELSE ThetaDen)
BetaB(s) ==
    ThetaDen * (NObs - SumSeq(s.z))
        + (IF theta_prior = "beta" THEN NObs * (ThetaDen - mp) ELSE ThetaDen)

\* update_theta(xs): the new theta in .ret.  beta.rvs raises ValueError when
\* a shape parameter is not positive
update_theta(s, xs) ==
    IF lmodel \in {"t", "gaussian"} THEN [s EXCEPT !.ret = s.theta]
    ELSE IF lmodel \in {"mixture", "vvh17"}
    THEN IF BetaA(s) <= 0 \/ BetaB(s) <= 0
         THEN [s EXCEPT !.err = "ValueError"]
         ELSE [s EXCEPT !.ret = RngVal(RngNext(s.rng), ThetaDen + 1),
                        !.rng = RngNext(s.rng)]
    ELSE [s EXCEPT !.ret = NoneVal]

\* top / bot of update_z as a numerator over ThetaDen; 0/0 is nan
Ratio(top, bot) == IF bot = 0 THEN NaN ELSE Fin((top * ThetaDen) \div bot)

\* a clamp of nan to 0
ClampNaNToZero(q) == IF q = NaN THEN 0 ELSE q[2]

\* "q[np.isnan(q)] = 1"
ClampNaN(q) == IF q = NaN THEN ThetaDen ELSE q[2]

\* a binomial draw of two trials in place of one
BernoulliTwoTrials(q, r) == IF RngVal(r, ThetaDen) < q THEN 2 ELSE 0

\* scipy.stats.binom.rvs(1, min(q, 1)) for one observation
Bernoulli(q, r) == IF RngVal(r, ThetaDen) < q THEN 1 ELSE 0

\* "top" of update_z for observation i
TopAt(s, xs, i) ==
    IF lmodel = "vvh17" THEN s.theta \div pspin[1]
    ELSE s.theta * NormPdf(Residual(i), meanAt(s.b, i), s.alpha[i] * ndiag(xs, i))

\* "bot" of update_z for observation i
BotAt(s, xs, i) ==
    TopAt(s, xs, i)
        + (ThetaDen - s.theta) * NormPdf(Residual(i), meanAt(s.b, i), ndiag(xs, i))

\* "q = top / bot; q[np.isnan(q)] = 1"
QOf(s, xs) == [i \in Obs |-> ClampNaN(Ratio(TopAt(s, xs, i), BotAt(s, xs, i)))]

\* "self._pout = q; return scipy.stats.binom.rvs(1, ...)"
DrawZ(s, q) ==
    [s EXCEPT !.pout = q,
              !.ret = [i \in Obs |-> Bernoulli(q[i], RngAt(s.rng, i))],
              !.rng = RngAt(s.rng, NObs)]

\* update_z with 'gaussian' in the list of the drawing branch
update_z_gaussian_drawn(s, xs) ==
    IF lmodel = "t" THEN [s EXCEPT !.ret = s.z]
    ELSE IF lmodel = "vvh17" /\ pspin = NoneVal THEN [s EXCEPT !.err = "TypeError"]
    ELSE DrawZ(s, QOf(s, xs))

\* update_z(xs): the new z in .ret; it stores q in self._pout
update_z(s, xs) ==
    IF lmodel \in {"t", "gaussian"} THEN [s EXCEPT !.ret = s.z]
    ELSE IF lmodel \in {"mixture", "vvh17"}
    THEN IF lmodel = "vvh17" /\ pspin = NoneVal
         THEN [s EXCEPT !.err = "TypeError"]
         ELSE DrawZ(s, QOf(s, xs))
    ELSE [s EXCEPT !.ret = NoneVal]

\* top / bot of update_alpha for observation i, bot a gamma draw
AlphaAt(s, xs, i) ==
    (((Residual(i) - meanAt(s.b, i)) * (Residual(i) - meanAt(s.b, i)) * s.z[i])
         \div ndiag(xs, i) + s.tdf)
        \div (2 * (1 + RngVal(RngAt(s.rng, i), 3)))

\* an update_alpha that draws for the flagged observations only
update_alpha_flagged_only(s, xs) ==
    IF SumSeq(s.z) >= 1 /\ vary_alpha
    THEN [s EXCEPT !.ret = [i \in Obs |-> IF s.z[i] = 0 THEN s.alpha[i]
                                          ELSE IF AlphaAt(s, xs, i) < 1 THEN 1
                                          ELSE AlphaAt(s, xs, i)],
                   !.rng = RngAt(s.rng, NObs)]
    ELSE [s EXCEPT !.ret = s.alpha]

\* update_alpha(xs): the new alpha in .ret; a draw for every observation
update_alpha(s, xs) ==
    IF SumSeq(s.z) >= 1 /\ vary_alpha
    THEN [s EXCEPT !.ret = [i \in Obs |-> IF AlphaAt(s, xs, i) < 1 THEN 1
                                          ELSE AlphaAt(s, xs, i)],
                   !.rng = RngAt(s.rng, NObs)]
    ELSE [s EXCEPT !.ret = s.alpha]

\* update_df that draws whatever vary_df says
update_df_always(s, xs) ==
    [s EXCEPT !.ret = 1 + RngVal(RngNext(s.rng), MaxDf), !.rng = RngNext(s.rng)]

\* update_df(xs): the new df in .ret; np.random.choice over 1..30
update_df(s, xs) ==
    IF vary_df
    THEN [s EXCEPT !.ret = 1 + RngVal(RngNext(s.rng), MaxDf), !.rng = RngNext(s.rng)]
    ELSE [s EXCEPT !.ret = s.tdf]

\* ------------------------------------------------------------ persistence
\* np.savetxt's '%.18e' text of one number: sign and magnitude
Fmt18e(v) == <<IF v < 0 THEN "-" ELSE "+", Abs(v)>>

\* float(text), as np.loadtxt reads one number
ParseFloat(t) == IF t[1] = "-" THEN 0 - t[2] ELSE t[2]

\* one line of a file: a row of a 2-d array is a tuple, of a 1-d array a number
FmtRow(name, row) ==
    IF name \in {"thetachain", "dfchain"} THEN Fmt18e(row)
    ELSE [c \in 1..Len(row) |-> Fmt18e(row[c])]

ParseRow(name, line) ==
    IF name \in {"thetachain", "dfchain"} THEN ParseFloat(line)
    ELSE [c \in 1..Len(line) |-> ParseFloat(line[c])]

\* a checkpoint that writes arr[:ii] in place of arr[:ii+1]
savetxtOneShort(name, arr, n) == [r \in 1..(n - 1) |-> FmtRow(name, arr[r])]

\* np.savetxt(f'{outdir}/<name>.txt', arr[:n]): the file's new content
savetxt(name, arr, n) == [r \in 1..n |-> FmtRow(name, arr[r])]

\* np.loadtxt(f'{outdir}/<name>.txt')
loadtxt(name) == [r \in 1..Len(files[name]) |-> ParseRow(name, files[name][r])]

\* the array sample() slices for file <name>
ArrayOf(name) ==
    CASE name = "chain" -> chain
      [] name = "bchain" -> bchain
      [] name = "thetachain" -> thetachain
      [] name = "zchain" -> zchain
      [] name = "alphachain" -> alphachain
      [] name = "poutchain" -> poutchain
      [] name = "dfchain" -> dfchain

\* np.zeros((n, width)) and np.zeros(n)
Zeros2(n, width) == [r \in 1..n |-> [c \in 1..width |-> 0]]
Zeros1(n) == [r \in 1..n |-> 0]

NoFiles == [name \in {FileNames[f] : f \in 1..Len(FileNames)} |-> <<>>]

\* ----------------------------------------------------------- construction
\* the inputs the model draws from
Models == {"gaussian", "t", "mixture", "vvh17"}
Seeds == {0, 1}
NiterChoices == {2, CheckpointEvery + 1, 2 * CheckpointEvery + 5}

\* "for ii in range(startLength, niter)": the loop goes on at index i
InRangeInclusive(i, n) == i <= n
InRange(i, n) == i < n

\* the same number of rows in each of the seven arrays
AllRows(k) == [f \in 1..Len(FileNames) |-> k]
XsChoices == {<<3, 2, 1>>, <<0, 1, 2>>, <<2, 1, 2>>}

\* Every configuration is run for a few sweeps; the runs that go beyond the
\* first checkpoint are explored for these configurations
LongRun(xs) ==
    /\ mp = 1 /\ theta_prior = "beta" /\ vary_alpha /\ pspin # NoneVal
    /\ \/ lmodel = "mixture" /\ vary_df
       \/ lmodel = "gaussian" /\ ~vary_df
    /\ rng = 0
    /\ tdfarg = TdfArg
    /\ xs = <<3, 2, 1>>

\* the values of tdf an object is constructed with: the default, and one
\* beyond the grid update_df draws from
TdfChoices == {TdfArg, MaxDf + 1}

\* a tdf other than the default is explored for these configurations
OtherTdf == mp = 1 /\ theta_prior = "beta" /\ vary_alpha /\ rng = 0

\* __init__: the attributes of a new object
NewObject ==
    [b |-> [j \in Basis |-> 0],
     pout |-> [i \in Obs |-> 0],
     z |-> IF lmodel \in {"t", "mixture", "vvh17"}
           THEN [i \in Obs |-> 1] ELSE [i \in Obs |-> 0],
     alpha |-> IF ~vary_alpha THEN [i \in Obs |-> AlphaArg] ELSE [i \in Obs |-> 1],
     theta |-> mp,
     tdf |-> tdfarg]

GibbsInit ==
    /\ lmodel \in Models
    /\ mp \in {0, 1, ThetaDen}
    /\ theta_prior \in {"beta", "flat"}
    /\ vary_df \in BOOLEAN
    /\ vary_alpha \in BOOLEAN
    /\ pspin \in {NoneVal, <<1>>}
    /\ rng \in Seeds
    /\ tdfarg \in TdfChoices
    /\ tdfarg # TdfArg => OtherTdf
    /\ b = NewObject.b /\ pout = NewObject.pout /\ z = NewObject.z
    /\ alpha = NewObject.alpha /\ theta = NewObject.theta /\ tdf = NewObject.tdf
    /\ TNT = NoneVal /\ d = NoneVal
    /\ chain = <<>> /\ bchain = <<>> /\ thetachain = <<>> /\ zchain = <<>>
    /\ alphachain = <<>> /\ poutchain = <<>> /\ dfchain = <<>>
    /\ iter = 0 /\ ii = 0 /\ xnew = <<>> /\ niter = 0
    /\ err = "" /\ fidx = 1 /\ calls = 0
    /\ resumed = FALSE /\ files0 = NoFiles /\ k0 = 0 /\ haltedAt = 0 - 1
    /\ rows = AllRows(0)
    /\ pc = "idle"
    /\ files = NoFiles
    /\ halts = 0

\* epochalyptica() is not called
NoEpochs ==
    /\ chi2_init = 0 /\ ndof_init = 0 /\ fits = <<>> /\ ftest_threshold = 0
    /\ done = {} /\ epochs_to_drop = <<>> /\ fout = <<>> /\ cuts = {}
    /\ epc = "off"

\* the state after OutlierGibbs(...): no likelihood object of poutlier
Init ==
    /\ GibbsInit
    /\ likob = NoneVal /\ pret = NoneVal /\ likob0 = NoneVal /\ pcall = NoneVal
    /\ mcall = NoneVal
    /\ NoEpochs

\* ------------------------------------------------------------- sample()
Min(S) == CHOOSE m \in S : \A n \in S : m <= n

\* a resume that copies nothing from the file
PaddedNothing(name, k, zeros) == zeros

\* a resume that copies every row the file has, without the truncation
PaddedUntruncated(name, k, zeros) ==
    LET tmp == loadtxt(name)
    IN  [r \in 1..Len(zeros) |-> IF r <= Len(tmp) THEN tmp[r] ELSE zeros[r]]

\* "tmp_chains = [tmp[:minLength] for tmp in tmp_chains]" and the padded copy
\* into the zero array: the first k rows of the file, zeros after them
Padded(name, k, zeros) ==
    LET tmp == loadtxt(name)
    IN  [r \in 1..Len(zeros) |-> IF r <= k THEN tmp[r] ELSE zeros[r]]

\* the start of sample(xs, outdir, niter=n, resume=res), down to the loop head
SampleStart(xs, n, res) ==
    /\ pc = "idle"
    /\ calls < MaxCalls
    /\ (halts > 0 \/ calls > 0) => res
    /\ n > CheckpointEvery => LongRun(xs)
    \* a resume to as many rows as a first checkpoint leaves is explored in
    \* the last process, as its last call
    /\ n = CheckpointEvery + 1 => (res /\ halts = MaxHalts)
    /\ niter # CheckpointEvery + 1
    /\ calls' = calls + 1
    /\ niter' = n
    /\ resumed' = res
    /\ files0' = IF res THEN files ELSE files0
    /\ haltedAt' = haltedAt
    /\ fidx' = 1
    /\ UNCHANGED <<likvars, bufvars, epochvars, cfgvars, objvars, files, rng, halts>>
    /\ LET minLength == Min({Len(files[FileNames[f]]) : f \in 1..Len(FileNames)})
           missing == \E f \in 1..Len(FileNames) : files[FileNames[f]] = <<>>
       IN  IF ~res
           THEN /\ chain' = Zeros2(n, NParams)
                /\ bchain' = Zeros2(n, NBasis)
                /\ thetachain' = Zeros1(n)
                /\ zchain' = Zeros2(n, NObs)
                /\ alphachain' = Zeros2(n, NObs)
                /\ poutchain' = Zeros2(n, NObs)
                /\ dfchain' = Zeros1(n)
                /\ iter' = 0
                /\ xnew' = xs
                /\ ii' = 0
                /\ k0' = k0
                /\ rows' = AllRows(0)
                /\ err' = ""
                /\ pc' = IF InRange(0, n) THEN "sweep" ELSE "idle"
           ELSE IF missing \/ minLength > n
           THEN \* np.loadtxt raises OSError; the first padded copy raises ValueError
                /\ chain' = Zeros2(n, NParams)
                /\ bchain' = Zeros2(n, NBasis)
                /\ thetachain' = Zeros1(n)
                /\ zchain' = Zeros2(n, NObs)
                /\ alphachain' = Zeros2(n, NObs)
                /\ poutchain' = Zeros2(n, NObs)
                /\ dfchain' = Zeros1(n)
                /\ iter' = 0
                /\ xnew' = xs
                /\ ii' = 0
                /\ k0' = IF missing THEN 0 ELSE minLength
                /\ rows' = AllRows(0)
                /\ err' = IF missing THEN "OSError" ELSE "ValueError"
                /\ pc' = "raised"
           ELSE /\ chain' = Padded("chain", minLength, Zeros2(n, NParams))
                /\ bchain' = Padded("bchain", minLength, Zeros2(n, NBasis))
                /\ thetachain' = Padded("thetachain", minLength, Zeros1(n))
                /\ zchain' = Padded("zchain", minLength, Zeros2(n, NObs))
                /\ alphachain' = Padded("alphachain", minLength, Zeros2(n, NObs))
                /\ poutchain' = Padded("poutchain", minLength, Zeros2(n, NObs))
                /\ dfchain' = Padded("dfchain", minLength, Zeros1(n))
                /\ iter' = 0
                \* startLength = minLength; xnew = self.chain[startLength-1]
                /\ xnew' = loadtxt("chain")[minLength]
                /\ ii' = minLength
                /\ k0' = minLength
                /\ rows' = AllRows(minLength)
                /\ err' = ""
                /\ pc' = IF InRange(minLength, n) THEN "sweep" ELSE "idle"

\* "if np.all(xnew != self.chain[ii,-1])"
BUpdateDue(x, row) == \A k \in 1..NParams : x[k] # row[NParams]

\* the assignments of the loop body, each after the call that precedes it
AssignX(s) == IF s.err = "" THEN [s EXCEPT !.x = s.ret] ELSE s
AssignB(s) == IF s.err = "" THEN [s EXCEPT !.b = s.ret] ELSE s
AssignTheta(s) == IF s.err = "" THEN [s EXCEPT !.theta = s.ret] ELSE s
AssignZ(s) == IF s.err = "" THEN [s EXCEPT !.z = s.ret] ELSE s
AssignAlpha(s) == IF s.err = "" THEN [s EXCEPT !.alpha = s.ret] ELSE s
AssignDf(s) == IF s.err = "" THEN [s EXCEPT !.tdf = s.ret] ELSE s

\* a sweep that starts with the cache of the sweep before
ClearCacheKept(s) == s

\* the statements of the loop body, lines 959-976; an exception skips the rest
ClearCache(s) == [s EXCEPT !.TNT = NoneVal, !.d = NoneVal]
StepWhite(s) == AssignX(update_white_params(s, s.x))
StepHyper(s) == IF s.err # "" THEN s ELSE AssignX(update_hyper_params(s, s.x))
StepB(s) ==
    IF s.err # "" THEN s
    ELSE IF BUpdateDue(s.x, s.row) THEN AssignB(update_b(s, s.x)) ELSE s
StepTheta(s) == IF s.err # "" THEN s ELSE AssignTheta(update_theta(s, s.x))
StepZ(s) == IF s.err # "" THEN s ELSE AssignZ(update_z(s, s.x))
StepAlpha(s) == IF s.err # "" THEN s ELSE AssignAlpha(update_alpha(s, s.x))
StepDf(s) == IF s.err # "" THEN s ELSE AssignDf(update_df(s, s.x))

\* a pass that draws z before theta
SweepUpdatesZBeforeTheta(s) ==
    StepDf(StepAlpha(StepTheta(StepZ(StepB(StepHyper(StepWhite(ClearCache(s))))))))

\* the updates of one pass of the loop body from the object state s
SweepUpdates(s) ==
    StepDf(StepAlpha(StepZ(StepTheta(StepB(StepHyper(StepWhite(ClearCache(s))))))))

\* a checkpoint test without "ii > 0"
CheckpointDueAlsoAtStart(i) == i % CheckpointEvery = 0

\* "ii % 100 == 0 and ii > 0"
CheckpointDue(i) == i % CheckpointEvery = 0 /\ i > 0

\* "self.chain[ii, :] = xnew" written to row i + 1 of the array a row below
\* on a loop index above 0
RecordRowBelow(arr, i, v) == IF i = 0 THEN arr ELSE [arr EXCEPT ![i] = v]

\* "self.chain[ii, :] = xnew" written through to the row before as well
RecordRowAndBefore(arr, i, v) ==
    IF i = 0 THEN [arr EXCEPT ![i + 1] = v] ELSE [arr EXCEPT ![i + 1] = v, ![i] = v]

\* "self.chain[ii, :] = xnew" and the like: the values go to row i (row i + 1
\* of a sequence)
RecordRow(arr, i, v) == [arr EXCEPT ![i + 1] = v]

\* one pass of the loop body up to the checkpoint test
Sweep ==
    /\ pc = "sweep"
    /\ iter' = ii
    /\ chain' = RecordRow(chain, ii, xnew)
    /\ bchain' = RecordRow(bchain, ii, b)
    /\ zchain' = RecordRow(zchain, ii, z)
    /\ thetachain' = RecordRow(thetachain, ii, theta)
    /\ alphachain' = RecordRow(alphachain, ii, alpha)
    /\ dfchain' = RecordRow(dfchain, ii, tdf)
    /\ poutchain' = RecordRow(poutchain, ii, pout)
    /\ rows' = AllRows(ii + 1)
    /\ \E s \in {SweepUpdates(Self)} :
           /\ b' = s.b /\ z' = s.z /\ theta' = s.theta /\ alpha' = s.alpha
           /\ tdf' = s.tdf /\ pout' = s.pout /\ TNT' = s.TNT /\ d' = s.d
           /\ rng' = s.rng
           /\ xnew' = s.x
           /\ err' = s.err
           /\ IF s.err # "" THEN pc' = "raised" /\ ii' = ii /\ fidx' = fidx
              ELSE IF CheckpointDue(ii) THEN pc' = "flush" /\ ii' = ii /\ fidx' = 1
              ELSE /\ ii' = ii + 1
                   /\ fidx' = fidx
                   /\ pc' = IF InRange(ii + 1, niter) THEN "sweep" ELSE "idle"
    /\ UNCHANGED <<likvars, bufvars, epochvars, cfgvars, niter, files, halts, calls, histvars>>

\* one np.savetxt of the checkpoint, lines 983-989
FlushWrite ==
    /\ pc = "flush"
    /\ files' = [files EXCEPT ![FileNames[fidx]] =
                     savetxt(FileNames[fidx], ArrayOf(FileNames[fidx]), ii + 1)]
    /\ IF fidx < Len(FileNames)
       THEN fidx' = fidx + 1 /\ ii' = ii /\ pc' = pc
       ELSE /\ fidx' = 1
            /\ ii' = ii + 1
            /\ pc' = IF InRange(ii + 1, niter) THEN "sweep" ELSE "idle"
    /\ UNCHANGED <<likvars, bufvars, epochvars, cfgvars, objvars, chainvars, xnew, niter, err, rng, halts,
                   calls, histvars, rowvars>>

\* an OSError of np.savetxt that is swallowed: the flush goes on with the
\* next file
FlushIOErrorSkipsFile ==
    /\ pc = "flush"
    /\ fidx < Len(FileNames)
    /\ fidx' = fidx + 1
    /\ err' = "OSError"
    /\ UNCHANGED <<likvars, bufvars, epochvars, cfgvars, objvars, chainvars, xnew, niter, ii, pc, files, rng,
                   halts, calls, histvars, rowvars>>

\* np.savetxt raises OSError: sample() ends there
FlushIOError ==
    /\ pc = "flush"
    /\ pc' = "raised"
    /\ err' = "OSError"
    /\ UNCHANGED <<likvars, bufvars, epochvars, cfgvars, objvars, chainvars, locvars, fidx, files, rng, halts,
                   calls, histvars, rowvars>>

\* the sweeps in which a kill of the sampling process is explored: an early
\* one, one between the two checkpoints, one after the second checkpoint
KillSweeps == {1, HaltSweep, 2 * CheckpointEvery + 3}

\* the process ends: killed while sampling (in one of KillSweeps, or anywhere
\* in a flush), dead of the exception, or done.  Its memory is gone, the
\* files stay.
Halt ==
    /\ pc \in {"sweep", "flush", "raised", "idle"}
    /\ pc = "sweep" => ii \in KillSweeps
    /\ calls > 0
    /\ halts < MaxHalts
    /\ halts' = halts + 1
    /\ pc' = "halted"
    /\ b' = NoneVal /\ z' = NoneVal /\ theta' = 0 /\ alpha' = NoneVal
    /\ tdf' = 0 /\ pout' = NoneVal /\ TNT' = NoneVal /\ d' = NoneVal
    /\ rng' = 0
    /\ chain' = <<>> /\ bchain' = <<>> /\ thetachain' = <<>> /\ zchain' = <<>>
    /\ alphachain' = <<>> /\ poutchain' = <<>> /\ dfchain' = <<>>
    /\ iter' = 0 /\ ii' = 0 /\ xnew' = <<>> /\ niter' = 0
    /\ err' = "" /\ fidx' = 1 /\ calls' = 0
    /\ resumed' = FALSE /\ files0' = NoFiles /\ k0' = 0
    /\ rows' = AllRows(0)
    /\ haltedAt' = IF pc \in {"sweep", "flush"} THEN ii ELSE 0 - 1
    /\ UNCHANGED <<likvars, bufvars, epochvars, cfgvars, files>>

\* a new process builds the object again, with the same arguments
Construct ==
    /\ pc = "halted"
    /\ pc' = "idle"
    /\ b' = NewObject.b /\ pout' = NewObject.pout /\ z' = NewObject.z
    /\ alpha' = NewObject.alpha /\ theta' = NewObject.theta /\ tdf' = NewObject.tdf
    /\ TNT' = NoneVal /\ d' = NoneVal
    /\ rng' \in Seeds
    /\ UNCHANGED <<likvars, bufvars, epochvars, cfgvars, chainvars, locvars, err, fidx, files, halts, calls,
                   histvars, rowvars>>

\* ------------------------------------------------------ marg_outlierprob()
\* "if burn is None: burn = int(0.25*self.poutchain.shape[0])"
MargBurn(burn) == IF burn = NoneVal THEN Len(poutchain) \div 4 ELSE burn[1]

\* the rows and the columns of "self.poutchain[burn:, :self.iter]"
MargRows(burn) == (MargBurn(burn) + 1)..Len(poutchain)
MargCols == 1..Min({iter, NObs})

\* marg_outlierprob(burn): np.mean(..., axis=0), nan for a column of no rows
marg_outlierprob(burn) ==
    [c \in MargCols |->
        IF MargRows(burn) = {} THEN NaN
        ELSE Fin(SumTo(Len(poutchain) - MargBurn(burn),
                       LAMBDA k : poutchain[MargBurn(burn) + k][c])
                     \div (Len(poutchain) - MargBurn(burn)))]

\* -------------------------------------------------------------- poutlier()
\* the parameter samples poutlier is called with: the a-priori outlier
\* probability (a numerator over ThetaDen), the offset of the deterministic
\* model, and efac
Samples == {<<pb, dm, ef>> : pb \in 0..ThetaDen, dm \in {0, 2}, ef \in {1, 3}}

\* the widths P0 of the outlier range
Widths == {1, 2}

\* "likob.base_loglikelihood_grad(p)": the likelihood is evaluated at p and
\* leaves the residuals, Nvec and outlier probability of p on the object,
\* where poutlier reads them
base_loglikelihood_grad(lk, p) ==
    [lk EXCEPT !.detresiduals = [i \in Obs |-> Residual(i) - p[2]],
               !.Nvec = [i \in Obs |-> p[3] * p[3] + 1],
               !.outlier_prob = p[1]]

\* "num/den" with num = PtB * PB, den = PtB * PB + PtA * PA and PtB = 1/P0,
\* both multiplied by P0; a numerator over ThetaDen, 0/0 is nan
OutlierPosterior(PB, PA, PtA, P0) == Ratio(PB, PB + PtA * PA * P0)

\* np.sqrt on the integer grid
ISqrt(n) == CHOOSE k \in 0..n : k * k <= n /\ n < (k + 1) * (k + 1)

\* what poutlier returns from the attributes of likob after the likelihood
\* call: "num/den, r/np.sqrt(N)"
poutlierOf(lk) ==
    [pout |-> [i \in Obs |->
                  OutlierPosterior(lk.outlier_prob, ThetaDen - lk.outlier_prob,
                                   NormPdf(lk.detresiduals[i], 0, lk.Nvec[i]), lk.P0)],
     sigma |-> [i \in Obs |-> lk.detresiduals[i] \div ISqrt(lk.Nvec[i])]]

\* the likelihood objects poutlier can be handed: one that was evaluated at
\* some sample before
Likobs == {base_loglikelihood_grad([P0 |-> w, detresiduals |-> <<>>, Nvec |-> <<>>,
                                    outlier_prob |-> 0], q) :
               w \in Widths, q \in Samples}

\* poutlier(p, likob)
Poutlier(p) ==
    /\ likob # NoneVal
    /\ likob' = base_loglikelihood_grad(likob, p)
    /\ pret' = <<poutlierOf(base_loglikelihood_grad(likob, p))>>
    /\ likob0' = <<likob>>
    /\ pcall' = <<p>>
    /\ UNCHANGED <<gibbsvars, bufvars, epochvars>>

\* poutlier is called on a likelihood object; no OutlierGibbs object is used
PoutInit ==
    /\ GibbsInit
    /\ lmodel = "gaussian" /\ mp = 0 /\ theta_prior = "beta" /\ vary_df
    /\ vary_alpha /\ pspin = NoneVal /\ rng = 0 /\ tdfarg = TdfArg
    /\ likob \in Likobs
    /\ pret = NoneVal /\ likob0 = NoneVal /\ pcall = NoneVal
    /\ mcall = NoneVal
    /\ NoEpochs

PoutNext == \E p \in Samples : Poutlier(p)

PoutSpec == PoutInit /\ [][PoutNext]_vars

\* ----------------------------- the arrays of the two Metropolis updates
\* The numpy arrays a Metropolis update handles, as buffers: h is the
\* sequence of the buffers' contents, a reference is an index into it.
\* Buffer 1 is the caller's xs.

\* "q = xnew" in place of "q = xnew.copy()": the same buffer under a new name
BufShare(h, r) == [h |-> h, ref |-> r]

\* "xs.copy()", "xnew.copy()": a new buffer of the same content
BufCopy(h, r) == [h |-> Append(h, h[r]), ref |-> Len(h) + 1]

\* "q[par] += ...": the buffer is changed in place
BufAdd(h, r, k, dx) == [h EXCEPT ![r][k] = @ + dx]

\* "par = np.random.choice(ind, size=1)" after state r0
ProposalIndex(r0, ind) == ind[RngVal(RngAt(r0, 2), Len(ind)) + 1]

\* "np.random.randn(len(q[par])) * sigmas * scale" after state r0
ProposalJump(r0) ==
    (RngVal(RngAt(r0, 3), 3) - 1) * JumpStep(RngVal(RngAt(r0, 1), 20))

\* one pass of the loop on the buffers: c is the copy q, h2 the buffers after
\* "q[par] += ...", next the Metropolis state after the pass; "xnew = q" when
\* the proposal was accepted
BufStep(bst, c, h2, next) ==
    [h |-> h2,
     xnew |-> IF next.x # bst.st.x THEN c.ref ELSE bst.xnew,
     log |-> Append(bst.log, [before |-> bst.h[bst.xnew], after |-> h2[c.ref]]),
     st |-> next]

BufPropose(bst, c, ind, next) ==
    BufStep(bst, c,
            BufAdd(c.h, c.ref, ProposalIndex(bst.st.s.rng, ind),
                   ProposalJump(bst.st.s.rng)),
            next)

WhiteBufPass(bst) ==
    BufPropose(bst, BufCopy(bst.h, bst.xnew), get_white_noise_indices, WhiteIter(bst.st))

HyperBufPass(bst) ==
    BufPropose(bst, BufCopy(bst.h, bst.xnew), get_hyper_param_indices, HyperIter(bst.st))

RECURSIVE WhiteBufLoop(_, _)
\* "for ii in range(20)": the passes made so far are the entries of the log
WhiteBufLoop(n, bst) ==
    IF Len(bst.log) >= n THEN bst ELSE WhiteBufLoop(n, WhiteBufPass(bst))

RECURSIVE HyperBufLoop(_, _)
\* "for ii in range(10)", left early by an exception of the likelihood
HyperBufLoop(n, bst) ==
    IF Len(bst.log) >= n \/ bst.st.s.err # "" THEN bst
    ELSE HyperBufLoop(n, HyperBufPass(bst))

\* "xnew = xs.copy()" and the start of the loop, the caller's xs in buffer 1
BufStart(c, st0) == [h |-> c.h, xnew |-> c.ref, log |-> <<>>, st |-> st0]

\* update_white_params(xs) on the buffers
WhiteBuffers(s, xs) ==
    WhiteBufLoop(WhiteIters,
                 BufStart(BufCopy(<<xs>>, 1),
                          [s |-> s, x |-> xs,
                           lnlike0 |-> get_lnlikelihood_white(s, xs),
                           lnprior0 |-> get_lnprior(xs)]))

\* update_hyper_params(xs) on the buffers
HyperBuffers(s, xs) ==
    HyperBufLoop(HyperIters,
                 BufStart(BufCopy(<<xs>>, 1), HyperStart(get_lnlikelihood(s, xs), xs)))

\* the calls of a Metropolis update made one after the other on one object
MetroCalls == 1

\* what a call leaves for inspection
MetroRecord(group, xs, bst) ==
    [group |-> group, xs |-> xs, h |-> bst.h, ret |-> bst.xnew, log |-> bst.log,
     x |-> bst.st.x, err |-> bst.st.s.err]

\* g.update_white_params(xs), called on its own
CallWhite(xs) ==
    /\ pc = "idle" /\ calls < MetroCalls
    /\ calls' = calls + 1
    /\ \E bst \in {WhiteBuffers(Self, xs)} :
           /\ mcall' = <<MetroRecord("white", xs, bst)>>
           /\ rng' = bst.st.s.rng /\ TNT' = bst.st.s.TNT /\ d' = bst.st.s.d
    /\ UNCHANGED <<likvars, epochvars, cfgvars, b, z, theta, alpha, tdf, pout, chainvars, locvars,
                   pc, err, fidx, files, halts, histvars, rowvars>>

\* g.update_hyper_params(xs), called on its own
CallHyper(xs) ==
    /\ pc = "idle" /\ calls < MetroCalls
    /\ calls' = calls + 1
    /\ \E bst \in {HyperBuffers(Self, xs)} :
           /\ mcall' = <<MetroRecord("hyper", xs, bst)>>
           /\ rng' = bst.st.s.rng /\ TNT' = bst.st.s.TNT /\ d' = bst.st.s.d
    /\ UNCHANGED <<likvars, epochvars, cfgvars, b, z, theta, alpha, tdf, pout, chainvars, locvars,
                   pc, err, fidx, files, halts, histvars, rowvars>>

\* the vectors update_b is called with: those of sample() and one whose
\* Sigma sl.svd gives up on
UpdateBChoices == XsChoices \cup {<<1, 2, 1>>}

\* what a call of update_b leaves for inspection: the diagonal of Sigma, d,
\* and the mean and Li Li^T of the path taken
UpdateBRecord(xs, s1, out) ==
    [group |-> "b", xs |-> xs, cond |-> SigmaCond(xs),
     Sigma |-> [j \in Basis |-> SigmaAt(s1, xs, j)], d |-> s1.d,
     f |-> FactorsOf(s1, xs),
     ret |-> out.ret, err |-> out.err]

\* g.update_b(xs), called on its own
CallUpdateB(xs) ==
    /\ pc = "idle" /\ calls < MetroCalls
    /\ calls' = calls + 1
    /\ \E out \in {update_b(Self, xs)} :
           /\ mcall' = <<UpdateBRecord(xs, FillCache(Self, xs), out)>>
           /\ rng' = out.rng /\ TNT' = out.TNT /\ d' = out.d
    /\ UNCHANGED <<likvars, epochvars, cfgvars, b, z, theta, alpha, tdf, pout, chainvars, locvars,
                   pc, err, fidx, files, halts, histvars, rowvars>>

\* the updates are called on a new object
MetroInit == Init

MetroNext ==
    \/ \E xs \in XsChoices : CallWhite(xs)
    \/ \E xs \in XsChoices : CallHyper(xs)
    \/ \E xs \in UpdateBChoices : CallUpdateB(xs)

MetroSpec == MetroInit /\ [][MetroNext]_vars

\* ------------------------------------------------ Ftest and epochalyptica
\* the epochs (file names) of the TOAs
NEpochs == 2
Epochs == 1..NEpochs

\* probabilities are counted in units of the default ftest_threshold, 1.0e-6
PScale == 1000000

\* what Python compares and formats: False, or a float
PyFalse == <<"bool", 0>>
PyFloat(v) == <<"float", v>>

\* "ftest < ftest_threshold": in a comparison with a float, False is 0
PyLt(v, t) == v[2] < t

\* "{ftest:e}": False is written as 0.000000e+00
FmtE(v) == v[2]

RECURSIVE TimesPow(_, _, _, _)
\* p (a/c)^h on the grid
TimesPow(p, a, c, h) == IF h = 0 THEN p ELSE TimesPow((p * a) \div c, a, c, h - 1)

\* scipy.special.fdtr(dfn, dfd, F), F = Fnum / Fden, in units of 1/PScale
\* (the closed form of the F distribution with two numerator degrees of
\* freedom, 1 - (dfd / (dfd + dfn F))^(dfd/2))
fdtr(dfn, dfd, Fnum, Fden) ==
    PScale - TimesPow(PScale, dfd * Fden, dfd * Fden + dfn * Fnum, dfd \div 2)

\* Ftest(chi2_1, dof_1, chi2_2, dof_2): F = (delta_chi2 / delta_dof) / new_redchi2
Ftest(chi2_1, dof_1, chi2_2, dof_2) ==
    IF chi2_1 - chi2_2 > 0
    THEN PyFloat(PScale - fdtr(dof_1 - dof_2, dof_2,
                               (chi2_1 - chi2_2) * dof_2, (dof_1 - dof_2) * chi2_2))
    ELSE PyFalse

\* the first fit of epochalyptica: chi2 and the degrees of freedom
InitFits == {[chi2 |-> 8, ndof |-> 6]}

\* the fit with one epoch removed: chi2 much lower, a little lower, or
\* higher with fewer degrees of freedom, and a fit whose degrees of freedom
\* are those of the first fit
FitChoices ==
    {[chi2 |-> 1, ndof |-> 4], [chi2 |-> 7, ndof |-> 4], [chi2 |-> 9, ndof |-> 4],
     [chi2 |-> 2, ndof |-> 6]}

\* ftest_threshold: the default 1.0e-6, and 0.1
ThresholdChoices == {1, PScale \div 10}

\* "if ndof_init != ndof: ftest = Ftest(...) ... else: ftest = False"
EpochFtest(fit) ==
    IF ndof_init # fit.ndof THEN Ftest(chi2_init, ndof_init, fit.chi2, fit.ndof)
    ELSE PyFalse

\* "if ftest < ftest_threshold: epochs_to_drop.append(filename)", under
\* "if ndof_init != ndof"
EpochDropped(fit, ftest) == ndof_init # fit.ndof /\ PyLt(ftest, ftest_threshold)

\* one pass of "for filename in set(filenames)", for epoch e
EpochFit(e) ==
    /\ epc = "loop" /\ e \notin done
    /\ epochs_to_drop' = IF EpochDropped(fits[e], EpochFtest(fits[e]))
                         THEN Append(epochs_to_drop, e) ELSE epochs_to_drop
    /\ fout' = Append(fout, [name |-> e, ftest |-> FmtE(EpochFtest(fits[e]))])
    /\ done' = done \cup {e}
    /\ epc' = IF done' = Epochs THEN "flags" ELSE "loop"
    /\ UNCHANGED <<gibbsvars, likvars, bufvars, chi2_init, ndof_init, fits,
                   ftest_threshold, cuts>>

\* "for etd in epochs_to_drop: ... apply_cut_flag(toas, epochdropinds, 'epochdrop')"
ApplyCutFlags ==
    /\ epc = "flags"
    /\ cuts' = {epochs_to_drop[k] : k \in 1..Len(epochs_to_drop)}
    /\ epc' = "done"
    /\ UNCHANGED <<gibbsvars, likvars, bufvars, chi2_init, ndof_init, fits,
                   ftest_threshold, done, epochs_to_drop, fout>>

\* epochalyptica(model, toas, tc_object, ftest_threshold) after its first
\* fit; no OutlierGibbs object is used
EpochInit ==
    /\ GibbsInit
    /\ lmodel = "gaussian" /\ mp = 0 /\ theta_prior = "beta" /\ vary_df
    /\ vary_alpha /\ pspin = NoneVal /\ rng = 0 /\ tdfarg = TdfArg
    /\ likob = NoneVal /\ pret = NoneVal /\ likob0 = NoneVal /\ pcall = NoneVal
    /\ mcall = NoneVal
    /\ \E f0 \in InitFits : chi2_init = f0.chi2 /\ ndof_init = f0.ndof
    /\ fits \in [Epochs -> FitChoices]
    /\ ftest_threshold \in ThresholdChoices
    /\ done = {} /\ epochs_to_drop = <<>> /\ fout = <<>> /\ cuts = {}
    /\ epc = "loop"

EpochNext ==
    \/ \E e \in Epochs : EpochFit(e)
    \/ ApplyCutFlags

EpochSpec == EpochInit /\ [][EpochNext]_vars

Next ==
    \/ \E xs \in XsChoices, n \in NiterChoices, res \in BOOLEAN :
           SampleStart(xs, n, res)
    \/ Sweep
    \/ FlushWrite
    \/ FlushIOError
    \/ Halt
    \/ Construct

Spec == Init /\ [][Next]_vars

\* ------------------------------------------------------------ properties
\* the object is alive: a process holds it
Alive == pc # "halted"

\* a row of the array of file <name> as np.zeros leaves it
ZeroRow(name) ==
    CASE name = "chain" -> [c \in 1..NParams |-> 0]
      [] name = "bchain" -> [c \in 1..NBasis |-> 0]
      [] name \in {"thetachain", "dfchain"} -> 0
      [] OTHER -> [c \in 1..NObs |-> 0]

\* the current sample() call is a resume that loaded its files
Loaded == Alive /\ resumed /\ k0 > 0 /\ k0 <= niter

\* the state the loop of a resumed call starts in
JustResumed == Loaded /\ pc = "sweep" /\ ii = k0

FileSet == {FileNames[f] : f \in 1..Len(FileNames)}

\* C1: for every model and every m in [0, 1], theta lies in [0, 1] and every
\* z_i is 0 or 1 after every sweep, and so does every recorded row of
\* thetachain and zchain
ThetaAndZInRange ==
    Alive =>
        /\ theta \in 0..ThetaDen
        /\ \A i \in Obs : z[i] \in {0, 1}
        /\ \A r \in DOMAIN thetachain : thetachain[r] \in 0..ThetaDen
        /\ \A r \in DOMAIN zchain : \A i \in Obs : zchain[r][i] \in {0, 1}

\* C1 happens: two sweeps of a mixture run have drawn theta and z, and a
\* drawn z with a one and a zero is in zchain
ThetaAndZDrawn ==
    /\ lmodel = "mixture" /\ pc = "sweep" /\ ii >= 2 /\ ~resumed
    /\ \E r \in 2..ii : \E i, j \in Obs : zchain[r][i] = 1 /\ zchain[r][j] = 0
    /\ \E r \in 2..ii : thetachain[r] # mp

\* C2: after a resume the first k rows of every group, k the row count of
\* the shortest file when the resume read them, equal the rows persisted
\* before the resume, in memory and in every file written since
ResumeKeepsPersistedRows ==
    Loaded =>
        \A name \in FileSet : \A r \in 1..k0 :
            /\ ArrayOf(name)[r] = ParseRow(name, files0[name][r])
            /\ Len(files[name]) >= k0
            /\ files[name][r] = files0[name][r]

\* C2 happens: a resumed run has swept past the next checkpoint and has
\* written all seven files again
ResumedAndFlushed ==
    /\ Loaded /\ ii > k0 /\ pc = "sweep"
    /\ \A name \in FileSet : files[name] # files0[name]

\* C3: a resume that finds files of differing row counts keeps the rows
\* below the minimum count only, starts its first sweep at that minimum, and
\* holds no row from beyond it
ResumeTruncatesToShortest ==
    Loaded =>
        /\ k0 = Min({Len(files0[name]) : name \in FileSet})
        /\ ii >= k0
        /\ JustResumed =>
               \A name \in FileSet : \A r \in (k0 + 1)..niter :
                   ArrayOf(name)[r] = ZeroRow(name)

\* C3 happens: a resume has read files of differing row counts, the longer
\* ones holding rows that are not zero
ResumedFromUnequalFiles ==
    /\ JustResumed
    /\ \E n1, n2 \in FileSet : Len(files0[n1]) # Len(files0[n2])
    /\ Len(files0["chain"]) > k0

\* C4: the first sweep of a resume starts from row k-1 of the truncated
\* chains: b, z, theta, alpha, df and the hyperparameter vector are that
\* row's, whatever the object held before the call
ResumeReseedsState ==
    JustResumed =>
        /\ xnew = chain[k0]
        /\ b = bchain[k0]
        /\ z = zchain[k0]
        /\ theta = thetachain[k0]
        /\ alpha = alphachain[k0]
        /\ tdf = dfchain[k0]

\* C5: a process killed in sweep 150, between the checkpoints of sweeps 100
\* and 200, and started again with resume=True goes on from the checkpoint
\* of sweep 100: it keeps the rows 0..100, starts from the vector of row 100
\* and holds nothing of the sweeps after the checkpoint
ResumeFromLastCheckpoint ==
    (Loaded /\ haltedAt = HaltSweep) =>
        /\ k0 = CheckpointEvery + 1
        /\ ii >= k0
        /\ JustResumed =>
               /\ xnew = ParseRow("chain", files0["chain"][CheckpointEvery + 1])
               /\ \A name \in FileSet : \A r \in (CheckpointEvery + 2)..niter :
                      ArrayOf(name)[r] = ZeroRow(name)

\* C5 happens: the process was killed in sweep 150 and its successor has
\* resumed
ResumedAfterKillAt150 == JustResumed /\ haltedAt = HaltSweep /\ halts > 0

\* C6: with model 'gaussian' z stays the zero vector and theta stays m
\* across the sweeps, and every recorded row of zchain and thetachain holds
\* these values
GaussianKeepsThetaAndZ ==
    (Alive /\ lmodel = "gaussian") =>
        /\ z = [i \in Obs |-> 0]
        /\ theta = mp
        /\ \A r \in 1..ii : zchain[r] = [i \in Obs |-> 0] /\ thetachain[r] = mp

\* C6 happens: a gaussian run with m > 0 has made two sweeps
GaussianSwept ==
    lmodel = "gaussian" /\ mp > 0 /\ pc = "sweep" /\ ii >= 2 /\ err = ""

\* C7: with vary_df=False and tdf=4 no sweep changes df, and every recorded
\* row of dfchain is 4
FixedDfStays ==
    (Alive /\ ~vary_df /\ tdfarg = TdfArg) =>
        /\ tdf = TdfArg
        /\ \A r \in 1..ii : dfchain[r] = TdfArg

\* C7 happens: a run with vary_df=False has recorded rows past a checkpoint
FixedDfSwept == ~vary_df /\ tdfarg = TdfArg /\ pc = "sweep" /\ ii > CheckpointEvery /\ err = ""

\* C8: model 'vvh17' with pspin=None is rejected by the constructor: no
\* sample() loop runs on such an object and no row is recorded
ConfigErrorRejectedAtConstruction ==
    (lmodel = "vvh17" /\ pspin = NoneVal) =>
        /\ pc \notin {"sweep", "flush"}
        /\ \A r \in DOMAIN chain : chain[r] = ZeroRow("chain")

\* C9: a failure of both factorisations in update_b does not end sample()
\* with an exception
UpdateBFailureIsRejection == ~(pc = "raised" /\ err = "LinAlgError")

\* the parameter vectors next to xnew along log10_A
NearVectors == {[xnew EXCEPT ![1] = v] : v \in 0..XMax}

\* C10: get_lnlikelihood at a vector whose Sigma has no Cholesky factor
\* returns -inf and raises nothing
CholeskyFailureReturnsNegInf ==
    (pc \in {"sweep", "flush", "idle"} /\ calls > 0 /\ err = "") =>
        \A xs \in NearVectors :
            SigmaCond(xs) # "pd" =>
                /\ get_lnlikelihood(Self, xs).ret = NegInf
                /\ get_lnlikelihood(Self, xs).err = ""

\* C10 happens: a sweep has evaluated get_lnlikelihood at a vector whose
\* Sigma is not positive definite, and has ended without an exception
SweptAtNotPositiveDefinite ==
    pc = "sweep" /\ ii >= 1 /\ err = "" /\ SigmaCond(chain[ii]) # "pd"

\* the vectors one Metropolis proposal away from xnew
NearProposals ==
    {[xnew EXCEPT ![k] = @ + dx] : k \in 1..NParams, dx \in (0 - 2)..2}

\* the values lnlike0 and lnprior0 can hold
LnValues == {NegInf, NaN, Fin(0 - 3), Fin(0), Fin(2)}

\* C11: in an iteration of update_white_params or update_hyper_params a
\* proposal whose log-likelihood is -inf is not accepted: xnew, lnlike0 and
\* lnprior0 stay as they were and nothing is raised
NegInfProposalRejected ==
    pc = "sweep" =>
        \A l0 \in LnValues, p0 \in {Fin(0), NegInf}, q \in NearProposals :
            \A out \in {Decide([s |-> Self, x |-> xnew, lnlike0 |-> l0, lnprior0 |-> p0],
                                q, [Self EXCEPT !.ret = NegInf])} :
                /\ out.x = xnew
                /\ out.lnlike0 = l0
                /\ out.lnprior0 = p0
                /\ out.s.err = ""

\* C11 happens: the first proposal of update_hyper_params in the coming
\* sweep moves the vector to a place where get_lnlikelihood is -inf, while
\* lnlike0 is finite, and the iteration keeps the vector
NegInfProposalMet ==
    /\ pc = "sweep"
    /\ \E st \in {HyperStart(get_lnlikelihood(StepWhite(ClearCache(Self)),
                                                StepWhite(ClearCache(Self)).x),
                               StepWhite(ClearCache(Self)).x)} :
          \E pr \in {Proposal(st.s.rng, st.x, get_hyper_param_indices)} :
              /\ IsFin(st.lnlike0)
              /\ pr.q # st.x
              /\ get_lnlikelihood([st.s EXCEPT !.rng = pr.rng], pr.q).ret = NegInf
              /\ HyperIter(st).x = st.x

\* self as update_z finds it in the coming sweep, after update_theta
BeforeUpdateZ == StepTheta(StepB(StepHyper(StepWhite(ClearCache(Self)))))

\* the model draws z: mixture, or vvh17 with a spin period
DrawsZ == lmodel = "mixture" \/ (lmodel = "vvh17" /\ pspin # NoneVal)

\* C12: in update_z for mixture and vvh17, an observation whose ratio
\* top / bot is nan gets the outlier probability 1 and the indicator 1, and
\* nothing is raised
NaNRatioFavoursOutlier ==
    (pc = "sweep" /\ DrawsZ) =>
        \A th \in 0..ThetaDen :
            \A s \in {[Self EXCEPT !.theta = th]} :
                \A out \in {update_z(s, xnew)} :
                    /\ out.err = ""
                    /\ \A i \in Obs :
                           Ratio(TopAt(s, xnew, i), BotAt(s, xnew, i)) = NaN =>
                               out.pout[i] = ThetaDen /\ out.ret[i] = 1

\* C12 happens: update_z of the coming sweep meets a nan ratio for an
\* observation and draws its indicator
NaNRatioMet ==
    /\ pc = "sweep" /\ DrawsZ
    /\ \E s \in {BeforeUpdateZ} :
          /\ s.err = ""
          /\ \E i \in Obs :
                 /\ Ratio(TopAt(s, s.x, i), BotAt(s, s.x, i)) = NaN
                 /\ StepZ(s).z[i] = 1
                 /\ StepZ(s).pout[i] = ThetaDen

\* sample() has allocated the arrays and is in its loop or past it
Sampling == pc \in {"sweep", "flush", "idle"} /\ calls > 0 /\ niter > 0

\* the number of rows sample() has recorded so far
RecordedRows == IF pc = "flush" THEN ii + 1 ELSE ii

\* C13: marg_outlierprob on a completed or in-progress chain returns one
\* entry for each of the N observations, each in [0, 1], however few sweeps
\* are recorded
MargOneEntryPerObservation ==
    (Sampling /\ RecordedRows >= 1) =>
        /\ DOMAIN marg_outlierprob(NoneVal) = Obs
        /\ \A c \in DOMAIN marg_outlierprob(NoneVal) :
               /\ IsFin(marg_outlierprob(NoneVal)[c])
               /\ marg_outlierprob(NoneVal)[c][2] \in 0..ThetaDen

\* C14: with burn=None marg_outlierprob averages the recorded rows after
\* the first quarter of the recorded rows, and no row that is not recorded
MargAveragesRecordedRows ==
    (Sampling /\ RecordedRows >= 1) =>
        MargRows(NoneVal) = ((RecordedRows \div 4) + 1)..RecordedRows

\* the factors the two prior weights are scaled by
Scales == 1..3

\* C15: poutlier returns (PtB*PB)/(PtB*PB + PtA*PA) with PB = Pb,
\* PA = 1 - Pb and PtB = 1/P0; the value lies in [0, 1] for every Pb in
\* [0, 1], P0 > 0 and PtA >= 0, and stays the same when PB and PA are
\* multiplied by one positive constant
PoutlierIsNormalisedProbability ==
    pret # NoneVal =>
        \A i \in Obs :
            \A PtA \in {NormPdf(likob.detresiduals[i], 0, likob.Nvec[i])} :
                /\ pret[1].pout[i] =
                       OutlierPosterior(likob.outlier_prob,
                                        ThetaDen - likob.outlier_prob, PtA, likob.P0)
                /\ IsFin(pret[1].pout[i])
                /\ pret[1].pout[i][2] \in 0..ThetaDen
                /\ \A c \in Scales :
                       OutlierPosterior(c * likob.outlier_prob,
                                        c * (ThetaDen - likob.outlier_prob),
                                        PtA, likob.P0)
                           = pret[1].pout[i]

\* C16: a poutlier call leaves every attribute of likob as it was, and what
\* it returns for a sample does not depend on the samples of earlier calls
PoutlierIsStateless ==
    pret # NoneVal =>
        /\ likob = likob0[1]
        /\ \A lk \in Likobs :
               lk.P0 = likob.P0 =>
                   poutlierOf(base_loglikelihood_grad(lk, pcall[1])) = pret[1]

\* C17: the df the chain holds is an integer of 1..30 after every sweep and
\* in every recorded row of dfchain, with vary_df True or False
DfWithinGrid ==
    (Sampling /\ Alive /\ RecordedRows >= 1) =>
        /\ tdf \in 1..MaxDf
        /\ \A r \in 1..RecordedRows : dfchain[r] \in 1..MaxDf

\* the rows the arrays hold when the loop of this call starts
StartRows == IF resumed /\ k0 <= niter THEN k0 ELSE 0

FlushErrorAborts ==
    [][/\ (pc = "flush" /\ err' # "") =>
              /\ pc' = "raised"
              /\ files' = files
              /\ \A f \in 1..(fidx - 1) : Len(files'[FileNames[f]]) = ii + 1
              /\ <<chainvars, rows>>' = <<chainvars, rows>>
       /\ pc = "raised" =>
              /\ pc' = "halted"
              /\ files' = files]_vars

\* C19 happens: the write of a file in the middle of a flush has failed
FlushFailedMidway ==
    /\ pc = "raised" /\ err = "OSError" /\ rows[1] > CheckpointEvery
    /\ fidx > 1 /\ fidx < Len(FileNames)
    /\ Len(files[FileNames[fidx - 1]]) = ii + 1
    /\ Len(files[FileNames[fidx]]) < ii + 1

\* C20: a sweep updates white, hyper, b, theta, z, alpha, df in this order:
\* the new theta is drawn from the z the sweep recorded (the previous
\* sweep's), the new z from the new theta and b and the recorded alpha, the
\* new alpha from the new z and b, the new df after them
SweepInFixedOrder ==
    [][(pc = "sweep" /\ pc' # "halted" /\ err' = "") =>
          \A sB \in {StepB(StepHyper(StepWhite(ClearCache(Self))))} :
            \A th \in {update_theta([sB EXCEPT !.z = zchain'[ii + 1]], xnew')} :
              \A zz \in {update_z([th EXCEPT !.theta = theta', !.b = b',
                                             !.alpha = alphachain'[ii + 1]], xnew')} :
                \A al \in {update_alpha([zz EXCEPT !.z = z', !.b = b'], xnew')} :
                    /\ xnew' = sB.x /\ b' = sB.b
                    /\ theta' = th.ret
                    /\ z' = zz.ret
                    /\ alpha' = al.ret
                    /\ tdf' = update_df([al EXCEPT !.alpha = alpha'], xnew').ret]_vars

\* C20 happens: sweeps of the mixture model have moved b, theta and alpha
SweptEveryGroup ==
    /\ lmodel = "mixture" /\ vary_alpha /\ vary_df /\ pc = "sweep" /\ ii >= 2 /\ err = ""
    /\ b # bchain[1] /\ theta # thetachain[1] /\ alpha # alphachain[1]
    /\ tdf # dfchain[1]

\* the object and the locals of the coming sweep after its two Metropolis
\* updates, where the loop body tests whether to call update_b
BeforeUpdateB == StepHyper(StepWhite(ClearCache(Self)))

\* C21: b is replaced by a fresh draw of update_b in every sweep: the b a
\* sweep leaves, which the next row of bchain records, is the result of an
\* update_b call of that sweep
BRedrawnEverySweep ==
    pc = "sweep" =>
        \A sH \in {BeforeUpdateB} :
            (sH.err = "" /\ update_b(sH, sH.x).err = "") =>
                StepB(sH).b = update_b(sH, sH.x).ret

\* C22: a sweep calls update_b if and only if the vector its two Metropolis
\* updates leave differs in at least one coordinate from the vector recorded
\* in the chain row at the start of the sweep
BRecomputedIffVectorChanged ==
    pc = "sweep" =>
        \A sH \in {BeforeUpdateB} :
            sH.err = "" =>
                (BUpdateDue(sH.x, sH.row) <=> \E k \in 1..NParams : sH.x[k] # sH.row[k])

\* C23: the cache a sweep leaves was filled in that sweep, once, after the
\* white update: it is TNT and d of the white-noise coordinates the sweep
\* ends with and of the z and alpha the sweep started with, which its
\* evaluations of get_lnlikelihood and update_b used, whatever cache the
\* object held when the sweep started
CachePerSweep ==
    [][(pc = "sweep" /\ pc' # "halted" /\ err' = "") =>
          /\ TNT' = TNTOf(NvecOf(Self, xnew'))
          /\ d' = dOf(NvecOf(Self, xnew'))]_vars

\* C23 happens: a sweep starts while the object still holds the cache of
\* the sweep before, filled for other values of efac, z or alpha
StaleCacheAtSweepStart ==
    /\ pc = "sweep" /\ ii >= 1 /\ err = ""
    /\ TNT # NoneVal
    /\ TNT # TNTOf(NvecOf(Self, xnew))

\* the rows a file holds after sweep j by the claim: those of the last
\* checkpoint, none before the first
PersistedRows(j) ==
    IF j >= CheckpointEvery THEN CheckpointEvery * (j \div CheckpointEvery) + 1 ELSE 0

\* sample() is between two sweeps or has returned, ii sweeps being recorded
BetweenSweeps == Alive /\ calls > 0 /\ pc \in {"sweep", "idle"} /\ err = "" /\ ii >= 1

\* the call found no files, or seven files of the same length
EqualAtStart == resumed => \A name \in FileSet : Len(files0[name]) = k0

ZVectors == [Obs -> {0, 1}]

\* self at a call of update_alpha, z being zz
AtUpdateAlpha(zz) == [Self EXCEPT !.z = zz, !.x = xnew]

\* C25: with vary_alpha=True update_alpha draws a new alpha_i for every
\* observation in every sweep, from the current z, flagged or not, also in a
\* sweep in which no observation is flagged
AlphaDrawnEverySweep ==
    (pc = "sweep" /\ vary_alpha) =>
        \A zz \in ZVectors :
            \A out \in {update_alpha(AtUpdateAlpha(zz), xnew)} :
                /\ out.rng = RngAt(rng, NObs)
                /\ \A i \in Obs :
                       out.ret[i] = IF AlphaAt(AtUpdateAlpha(zz), xnew, i) < 1 THEN 1
                                    ELSE AlphaAt(AtUpdateAlpha(zz), xnew, i)

\* C25 amended: with vary_alpha=True, in a sweep in which at least one
\* observation is flagged update_alpha draws a new alpha_i for every
\* observation, flagged or not, from the current z; in a sweep in which none
\* is flagged it draws nothing and returns alpha as it is
AlphaDrawnWhenAnyFlagged ==
    (pc = "sweep" /\ vary_alpha) =>
        \A zz \in ZVectors :
            \A out \in {update_alpha(AtUpdateAlpha(zz), xnew)} :
                IF SumSeq(zz) >= 1
                THEN /\ out.rng = RngAt(rng, NObs)
                     /\ \A i \in Obs :
                            out.ret[i] = IF AlphaAt(AtUpdateAlpha(zz), xnew, i) < 1 THEN 1
                                         ELSE AlphaAt(AtUpdateAlpha(zz), xnew, i)
                ELSE out.rng = rng /\ out.ret = alpha

\* C25 happens: a sweep of the mixture model has drawn alpha while one
\* observation was flagged and another was not, and the draw has moved the
\* alpha of the one that was not
UnflaggedAlphaDrawn ==
    /\ pc = "sweep" /\ vary_alpha /\ lmodel = "mixture" /\ ii >= 2 /\ err = ""
    /\ \E i, j \in Obs :
           /\ z[i] = 1 /\ z[j] = 0
           /\ alpha[j] # alphachain[ii][j]

\* the index set of the group a Metropolis call belongs to
GroupOf(group) ==
    IF group = "white" THEN get_white_noise_indices ELSE get_hyper_param_indices

\* the coordinates in which two vectors differ
Moved(u, v) == {k \in 1..NParams : u[k] # v[k]}

\* the indices a sequence of indices holds
Members(ind) == {ind[k] : k \in 1..Len(ind)}

\* C26: update_white_params makes 20 passes and update_hyper_params 10; each
\* pass proposes a change to one coordinate, of the group's own index set;
\* the vector returned differs from the input in coordinates of the group
\* only, and the caller's array holds after the call what it held before
MetropolisMovesOwnGroup ==
    (mcall # NoneVal /\ mcall[1].group # "b" /\ mcall[1].err = "") =>
        \A m \in {mcall[1]} :
            /\ Len(m.log) = IF m.group = "white" THEN WhiteIters ELSE HyperIters
            /\ \A p \in 1..Len(m.log) :
                   /\ Cardinality(Moved(m.log[p].before, m.log[p].after)) <= 1
                   /\ Moved(m.log[p].before, m.log[p].after) \subseteq Members(GroupOf(m.group))
            /\ Moved(m.xs, m.h[m.ret]) \subseteq Members(GroupOf(m.group))
            /\ m.h[1] = m.xs
            /\ m.ret # 1
            /\ m.h[m.ret] = m.x

\* C26 happens: a call has returned, in a buffer of its own, a vector that
\* differs from the one it was given
MetropolisMoved ==
    /\ mcall # NoneVal /\ mcall[1].group # "b" /\ mcall[1].err = ""
    /\ mcall[1].h[mcall[1].ret] # mcall[1].xs
    /\ \E p \in 1..Len(mcall[1].log) : mcall[1].log[p].after # mcall[1].log[p].before

\* C27: on both paths of update_b, the svd of Sigma and the qr fallback, the
\* operator L of the draw b = mean + L eps satisfies L L^T = Sigma^-1, and
\* mean = Sigma^-1 d (on the diagonal)
UpdateBWhitens ==
    (mcall # NoneVal /\ mcall[1].group = "b" /\ mcall[1].err = "") =>
        \A m \in {mcall[1]} : \A j \in Basis :
            /\ m.f.LiSq[j][1] * m.Sigma[j] = m.f.LiSq[j][2]
            /\ m.f.mn[j] = m.d[j] \div m.Sigma[j]

\* the attributes and the vector a sweep starts with are what row i of the
\* seven arrays holds after it
RowHolds(i, x0, b0, z0, theta0, alpha0, tdf0, pout0) ==
    /\ chain'[i + 1] = x0 /\ bchain'[i + 1] = b0 /\ zchain'[i + 1] = z0
    /\ thetachain'[i + 1] = theta0 /\ alphachain'[i + 1] = alpha0
    /\ dfchain'[i + 1] = tdf0 /\ poutchain'[i + 1] = pout0

RecordedRowsKept ==
    [][(Alive /\ calls > 0 /\ calls' = calls /\ pc' # "halted") =>
          \A f \in 1..Len(FileNames) :
              /\ rows'[f] >= rows[f]
              /\ \A r \in 1..rows[f] :
                     ArrayOf(FileNames[f])'[r] = ArrayOf(FileNames[f])[r]]_vars

\* C29 happens: a resumed call, whose start vector is the last loaded row,
\* has moved the vector away from that row in later sweeps
ResumedVectorMovedOn ==
    /\ Loaded /\ pc = "sweep" /\ err = "" /\ ii > k0 + 1
    /\ xnew # chain[k0]
    /\ chain[k0 + 1] = chain[k0]
    /\ \A f \in 1..Len(FileNames) : rows[f] = ii

\* Ftest returned, for the fit without epoch e, a probability below the
\* threshold
GenuinelyBelow(e) ==
    /\ ndof_init # fits[e].ndof
    /\ chi2_init - fits[e].chi2 > 0
    /\ Ftest(chi2_init, ndof_init, fits[e].chi2, fits[e].ndof)[2] < ftest_threshold

\* C30: an epoch is put on the list of epochs to drop, and gets the cut
\* flag 'epochdrop', only when Ftest returned a probability below
\* ftest_threshold; never when Ftest returned False because chi-squared did
\* not go down, or when the degrees of freedom did not change
DroppedOnlyBelowThreshold ==
    /\ \A k \in 1..Len(epochs_to_drop) : GenuinelyBelow(epochs_to_drop[k])
    /\ \A e \in cuts : GenuinelyBelow(e)

====
